---------------------------- MODULE Spec2Model ----------------------------
(***************************************************************************)
(* Electoral-register policies of the member_dialects package:             *)
(*   main_subst_delegate.py  MainAndSubstVT, MainSubstDelegatePolicy and   *)
(*                           the role-added / role-removed receivers       *)
(*   main_or_subst_er.py     MainSubstActivePolicy                         *)
(*   skk_fum.py              SKKFum                                        *)
(*   skr_agarrad.py          SKRAgarradERP                                 *)
(* The entity store (groups, memberships, active users, vote transfers) is *)
(* the state; every policy call and every store mutation is one action.    *)
(***************************************************************************)
EXTENDS Integers, Sequences, FiniteSets, TLC

\* ------------------------------------------------------------------ bounds
NUsers == 3
NGroups == 2
MaxMemberships == 4     \* memberships of a meeting, vote-transfer runs
MaxRoleHolders == 3     \* memberships of a meeting, allocator runs
MaxVotes == 2           \* votes of a group, main_subst_active runs
MaxActive == 2          \* length of the active-user log
MaxSfsEntries == 2      \* entries of a submitted weights list
MaxRacing == 2         \* memberships of a meeting whose calls race
MaxFumVotes == 5        \* votes of a group, skk_kfum runs

Users == 1..NUsers
Groups == 1..NGroups

\* --------------------------------------------------------------- constants
MAIN_ROLE_ID == "main"
SUBSTITUTE_ROLE_ID == "substitute"
DELEGAT_FULLMAKT == "del_2"
DELEGAT == "del_1"
SUPPLEANT == "suppleant"
SKR_GROUP_ID == "skr"
REGION_TAG == "region"
KOMMUN_TAG == "kommun"
DELEGATION_LEADER_ROLE_ID == "leader"
\* GroupVotesBeforePoll.name
GroupVotesBeforePoll == "gv_auto_before_p"
Absent == "absent"
\* The role of a membership made with members.add(user): none.
NoRole == "no_role"

\* ------------------------------------------------------------------- state
VARIABLES
    role,           \* role[g][u]: role_id of u's GroupMembership in g, or Absent
    mvotes,         \* mvotes[g][u]: GroupMembership.votes, None or Some(n)
    gvotes,         \* gvotes[g]: MeetingGroup.votes, None or Some(n)
    group_roles,    \* role_ids of the meeting's GroupRoles
    potential,      \* users whose meeting roles contain ROLE_POTENTIAL_VOTER
    groupid,        \* groupid[g]: MeetingGroup.groupid
    tags,           \* tags[g]: MeetingGroup.tags
    delegate_to,    \* delegate_to[g]: MeetingGroup.delegate_to, None or Some(h)
    finished,       \* the meeting is closed
    er_policy_name, \* Meeting.er_policy_name
    moderators,     \* users with MeetingPermissions.CHANGE
    active_users,   \* meeting.active_users ordered by created
    active_enabled, \* the ActiveUsersComponent is on
    transfers,      \* meeting.vote_transfers: set of [source, target]
    inflight,       \* calls of get_voters past their reads and before their writes
    ret             \* outcome of the last call, "none" after a store mutation

\* What the dialect's setup fixes for a meeting.
setup == <<group_roles, potential, groupid, tags, delegate_to,
          finished, er_policy_name, moderators>>
store == <<role, mvotes, gvotes, setup, active_users, active_enabled, transfers,
          inflight>>
vars == <<store, ret>>

\* A nullable integer column.
None == <<>>
Some(n) == <<n>>

NoAux == [dist |-> <<>>, power |-> <<>>]
Ret(op, status, voters, msg, aux) ==
    [op |-> op, status |-> status, voters |-> voters, msg |-> msg, aux |-> aux]
NoRet == Ret("none", "none", <<>>, "", NoAux)

\* The calls in flight once the store changed under them: what they read,
\* the memberships, the group capacities and the active users, is no longer
\* what the store holds.
Outdated(calls) == {[c EXCEPT !.stale = TRUE] : c \in calls}

\* The calls in flight once another call has run from its reads to its
\* writes while they were between their own.
Overtaken(calls) == {[c EXCEPT !.overtaken = TRUE] : c \in calls}
\* What a membership event leaves behind: the transfers check_role_removed
\* and check_role_added deleted, nothing when they deleted none.
EventRet(by_removed, by_added) ==
    IF by_removed \cup by_added = {} THEN NoRet
    ELSE Ret("role_event", "deleted", <<>>, "",
             [deleted |-> by_removed \cup by_added,
              by_removed |-> by_removed, by_added |-> by_added])

\* ----------------------------------------------------------------- helpers
\* All enumerations (orders a query may yield its rows in) of a finite set.
Perms(S) ==
    {f \in [1..Cardinality(S) -> S] : \A i, j \in 1..Cardinality(S) : f[i] = f[j] => i = j}

\* meeting.groups
MeetingGroups == DOMAIN role

HasRole(u, g, r) == role[g][u] = r

NMemberships == Cardinality({p \in MeetingGroups \X Users : role[p[1]][p[2]] # Absent})

\* The sum of f over the set S.
RECURSIVE SumOver(_, _)
SumOver(f, S) ==
    IF S = {} THEN 0
    ELSE LET x == CHOOSE y \in S : TRUE IN f[x] + SumOver(f, S \ {x})

\* An ongoing meeting run by the given policy, no moderator among the users.
OngoingMeeting(policy) ==
    /\ finished = FALSE
    /\ er_policy_name = policy
    /\ moderators = {}

\* Groups as a dialect without group ids, tags or delegation leaves them.
PlainGroups ==
    /\ groupid = [g \in Groups |-> "group"]
    /\ tags = [g \in Groups |-> {}]
    /\ delegate_to = [g \in Groups |-> None]

\* ===================================================== main_subst_delegate
\* VoteTransfer.source carries a unique constraint in the poll application
\* ("source already has a unique check").
SourceUnique(source, modifying) ==
    \A vt \in transfers \ modifying : vt.source # source

\* MainAndSubstVT.check without the first test: the uniqueness of the target.
CheckNoUnique(source, target, modifying) ==
    IF \E g \in MeetingGroups : HasRole(target, g, MAIN_ROLE_ID)
    THEN "target_main"
    ELSE IF ~ \E g \in MeetingGroups : /\ HasRole(source, g, MAIN_ROLE_ID)
                                /\ HasRole(target, g, SUBSTITUTE_ROLE_ID)
    THEN "no_shared_group"
    ELSE "ok"

\* MainAndSubstVT.check with Q(target=target) left out of the first test.
CheckSourceSideOnly(source, target, modifying) ==
    IF \E vt \in transfers \ modifying : vt.source = target
    THEN "target_taken"
    ELSE IF \E g \in MeetingGroups : HasRole(target, g, MAIN_ROLE_ID)
    THEN "target_main"
    ELSE IF ~ \E g \in MeetingGroups : /\ HasRole(source, g, MAIN_ROLE_ID)
                                /\ HasRole(target, g, SUBSTITUTE_ROLE_ID)
    THEN "no_shared_group"
    ELSE "ok"

\* MainAndSubstVT.check without the second test: target holds 'main'.
CheckNoMainTest(source, target, modifying) ==
    IF \E vt \in transfers \ modifying : vt.target = target \/ vt.source = target
    THEN "target_taken"
    ELSE IF ~ \E g \in MeetingGroups : /\ HasRole(source, g, MAIN_ROLE_ID)
                                /\ HasRole(target, g, SUBSTITUTE_ROLE_ID)
    THEN "no_shared_group"
    ELSE "ok"

\* MainAndSubstVT.check: "ok", or the ValidationError it raises.
\* modifying is the set holding the transfer being updated (empty on create).
Check(source, target, modifying) ==
    IF \E vt \in transfers \ modifying : vt.target = target \/ vt.source = target
    THEN "target_taken"
    ELSE IF \E g \in MeetingGroups : HasRole(target, g, MAIN_ROLE_ID)
    THEN "target_main"
    ELSE IF ~ \E g \in MeetingGroups : /\ HasRole(source, g, MAIN_ROLE_ID)
                                /\ HasRole(target, g, SUBSTITUTE_ROLE_ID)
    THEN "no_shared_group"
    ELSE "ok"

\* check_role_added filtering on source_id instead of target_id.
AfterRoleAddedSourceSide(ts, user, role_id) ==
    IF role_id = MAIN_ROLE_ID
    THEN {vt \in ts : vt.source # user}
    ELSE ts

\* check_role_added deleting nothing.
AfterRoleAddedKeepAll(ts, user, role_id) == ts

\* check_role_added: the transfers left after user gained role_id.
AfterRoleAdded(ts, user, role_id) ==
    IF role_id = MAIN_ROLE_ID
    THEN {vt \in ts : vt.target # user}
    ELSE ts

\* .first() of a queryset: one row of it (the lowest pk), none when empty.
\* "In this dialect, it may only be one."
FirstOf(S) == IF S = {} THEN {} ELSE {CHOOSE x \in S : TRUE}

\* check_role_removed with the 'substitute' branch left out.
AfterRoleRemovedMainOnly(ts, r, user, g, role_id) ==
    IF role_id = MAIN_ROLE_ID
    THEN ts \ {vt \in ts : vt.source = user /\ r[g][vt.target] = SUBSTITUTE_ROLE_ID}
    ELSE ts

\* check_role_removed: the transfers left after user lost role_id in group g,
\* read against the memberships r (the store after the change).
AfterRoleRemoved(ts, r, user, g, role_id) ==
    IF role_id = MAIN_ROLE_ID
    THEN LET vts == FirstOf({vt \in ts : vt.source = user})
         IN  ts \ {vt \in vts : r[g][vt.target] = SUBSTITUTE_ROLE_ID}
    ELSE IF role_id = SUBSTITUTE_ROLE_ID
    THEN LET vts == FirstOf({vt \in ts : vt.target = user})
         IN  ts \ {vt \in vts : r[g][vt.source] = MAIN_ROLE_ID}
    ELSE ts

\* One step of the loop of MainSubstDelegatePolicy.get_voters over the
\* transfers in the order the query yields them; voters.remove raises
\* KeyError when the source is not in the set.
RECURSIVE ApplyTransfers(_, _, _)
ApplyTransfers(vts, i, acc) ==
    IF acc.status # "ok" \/ i > Len(vts) THEN acc
    ELSE LET vt == vts[i]
             added == acc.voters \cup {vt.target}
         IN  IF vt.source \notin added
             THEN ApplyTransfers(vts, i + 1, [status |-> "error", voters |-> {}])
             ELSE ApplyTransfers(vts, i + 1,
                                 [status |-> "ok", voters |-> added \ {vt.source}])

MainHolders == {u \in Users : \E g \in MeetingGroups : HasRole(u, g, MAIN_ROLE_ID)}

\* get_voters with voters.remove(vt.source_id) left out.
DelegateVoterSetKeepSource(vts) ==
    [status |-> "ok", voters |-> MainHolders \cup {vts[i].target : i \in 1..Len(vts)}]

\* MainSubstDelegatePolicy.get_voters, the transfers read in the order vts.
DelegateVoterSet(vts) ==
    ApplyTransfers(vts, 1, [status |-> "ok", voters |-> MainHolders])

\* {x: 1 for x in voters}
WeightOne(S) == [u \in S |-> 1]

\* The field the error of a refused create or update is keyed on.
ErrorKey(verdict) ==
    IF verdict = "ok" THEN "" ELSE IF verdict = "source_taken" THEN "source" ELSE "target"

\* ------------------------------------------------------------- actions
\* POST vote-transfer: the serializer runs the model's unique check and the
\* policy's check, then saves.
CreateTransfer(s, t) ==
    /\ s # t
    /\ LET verdict == IF ~SourceUnique(s, {}) THEN "source_taken" ELSE Check(s, t, {})
       IN  /\ transfers' = IF verdict = "ok"
                           THEN transfers \cup {[source |-> s, target |-> t]}
                           ELSE transfers
           /\ ret' = Ret("create", verdict, <<>>, ErrorKey(verdict), NoAux)
    /\ UNCHANGED <<role, mvotes, gvotes, setup, active_users, active_enabled, inflight>>

\* PATCH vote-transfer: check(source, target, modifying=vt), then save.
UpdateTransfer(vt, s, t) ==
    /\ vt \in transfers
    /\ s # t
    /\ [source |-> s, target |-> t] # vt
    /\ LET verdict == IF ~SourceUnique(s, {vt}) THEN "source_taken" ELSE Check(s, t, {vt})
       IN  /\ transfers' = IF verdict = "ok"
                           THEN (transfers \ {vt}) \cup {[source |-> s, target |-> t]}
                           ELSE transfers
           /\ ret' = Ret("update", verdict, <<>>, ErrorKey(verdict), NoAux)
    /\ UNCHANGED <<role, mvotes, gvotes, setup, active_users, active_enabled, inflight>>

\* group.memberships.create(user=u, role=r): group_role_added is sent.
AddMembership(u, g, r) ==
    /\ role[g][u] = Absent
    /\ role' = [role EXCEPT ![g][u] = r]
    /\ transfers' = AfterRoleAdded(transfers, u, r)
    /\ ret' = EventRet({}, transfers \ transfers')
    /\ inflight' = Outdated(inflight)
    /\ UNCHANGED <<mvotes, gvotes, setup, active_users, active_enabled>>

\* membership.delete(): group_role_removed is sent for the role it held.
DeleteMembership(u, g) ==
    /\ role[g][u] # Absent
    /\ role' = [role EXCEPT ![g][u] = Absent]
    /\ mvotes' = [mvotes EXCEPT ![g][u] = None]
    /\ transfers' = AfterRoleRemoved(transfers, role', u, g, role[g][u])
    /\ ret' = EventRet(transfers \ transfers', {})
    /\ inflight' = Outdated(inflight)
    /\ UNCHANGED <<gvotes, setup, active_users, active_enabled>>

\* membership.role = r; save(): group_role_removed for the old role, then
\* group_role_added for the new one, both after the save.
ChangeRole(u, g, r) ==
    /\ role[g][u] # Absent
    /\ role[g][u] # r
    /\ role' = [role EXCEPT ![g][u] = r]
    /\ LET kept == AfterRoleRemoved(transfers, role', u, g, role[g][u])
       IN  /\ transfers' = AfterRoleAdded(kept, u, r)
           /\ ret' = EventRet(transfers \ kept, kept \ transfers')
    /\ inflight' = Outdated(inflight)
    /\ UNCHANGED <<mvotes, gvotes, setup, active_users, active_enabled>>

\* MainSubstDelegatePolicy.get_voters()
GetVotersDelegate ==
    /\ \E vts \in Perms({vt \in transfers : vt.source \in MainHolders}) :
          LET res == DelegateVoterSet(vts)
          IN  ret' = Ret("get_voters", res.status, WeightOne(res.voters), "", NoAux)
    /\ UNCHANGED store

VTRoles == {MAIN_ROLE_ID, SUBSTITUTE_ROLE_ID}

\* A meeting as the dialect installs it: its groups and group roles, no
\* membership, no transfer, nobody active.
EmptyMeeting(role_ids, policy) ==
    /\ role = [g \in Groups |-> [u \in Users |-> Absent]]
    /\ mvotes = [g \in Groups |-> [u \in Users |-> None]]
    /\ gvotes = [g \in Groups |-> None]
    /\ group_roles = role_ids
    /\ potential = Users
    /\ PlainGroups
    /\ OngoingMeeting(policy)
    /\ active_users = <<>>
    /\ active_enabled = FALSE
    /\ transfers = {}
    /\ inflight = {}
    /\ ret = NoRet

InitVT == EmptyMeeting(VTRoles, "main_subst_delegate")

NextVT ==
    \/ \E s, t \in Users : CreateTransfer(s, t)
    \/ \E vt \in transfers : \E s, t \in Users : UpdateTransfer(vt, s, t)
    \/ \E u \in Users, g \in MeetingGroups, r \in VTRoles :
          NMemberships < MaxMemberships /\ AddMembership(u, g, r)
    \/ \E u \in Users, g \in MeetingGroups : DeleteMembership(u, g)
    \/ \E u \in Users, g \in MeetingGroups, r \in VTRoles : ChangeRole(u, g, r)
    \/ GetVotersDelegate

SpecVT == InitVT /\ [][NextVT]_vars

\* meeting.add_roles(user, ROLE_POTENTIAL_VOTER)
AddRoles(u) ==
    /\ u \notin potential
    /\ potential' = potential \cup {u}
    /\ ret' = NoRet
    /\ UNCHANGED <<role, mvotes, gvotes, group_roles, groupid, tags, delegate_to,
                   finished, er_policy_name, moderators,
                   active_users, active_enabled, transfers, inflight>>

\* meeting.remove_roles(user, ROLE_POTENTIAL_VOTER)
RemoveRoles(u) ==
    /\ u \in potential
    /\ potential' = potential \ {u}
    /\ ret' = NoRet
    /\ UNCHANGED <<role, mvotes, gvotes, group_roles, groupid, tags, delegate_to,
                   finished, er_policy_name, moderators,
                   active_users, active_enabled, transfers, inflight>>

\* The delegate dialect with the meeting roles of the users changing too.
NextPV ==
    \/ NextVT
    \/ \E u \in Users : AddRoles(u)
    \/ \E u \in Users : RemoveRoles(u)

SpecPV == InitVT /\ [][NextPV]_vars


\* ======================================================= main_subst_active
\* self.meeting.groups.filter(votes__gt=0)
GroupsWithVotes == {g \in MeetingGroups : gvotes[g] # None /\ gvotes[g][1] > 0}

\* user_order with the active users ordered by pk instead of by created.
OrderedUsersByPk ==
    SelectSeq([i \in 1..NUsers |-> i],
              LAMBDA u : active_enabled => \E i \in 1..Len(active_users) : active_users[i] = u)

\* The keys of user_order, lowest order first: the active-user log by
\* created when the component is on, else the participants by pk.
OrderedUsers ==
    IF active_enabled THEN active_users ELSE [i \in 1..NUsers |-> i]

\* group_memberships[g][role_id] with "user_id__in=user_order" left out of
\* the prefetch: the holders outside user_order follow the ones inside.
SortedMembersUnfiltered(g, role_id) ==
    SelectSeq(OrderedUsers, LAMBDA u : role[g][u] = role_id)
    \o SelectSeq([i \in 1..NUsers |-> i],
                 LAMBDA u : /\ role[g][u] = role_id
                            /\ \A i \in 1..Len(OrderedUsers) : OrderedUsers[i] # u)

\* group_memberships[g][role_id] after the sort by user_order: the prefetch
\* keeps the members found in user_order that hold role_id in g.
SortedMembers(g, role_id) ==
    SelectSeq(OrderedUsers, LAMBDA u : role[g][u] = role_id)

\* The inner loop with the test "if not group_vote_power[group]: break"
\* left out.
RECURSIVE PickMembersNoBreak(_, _, _, _)
PickMembersNoBreak(members, i, g, st) ==
    IF i > Len(members) THEN st
    ELSE IF members[i] \in st.picked THEN PickMembersNoBreak(members, i + 1, g, st)
    ELSE PickMembersNoBreak(members, i + 1, g,
             [picked |-> st.picked \cup {members[i]},
              power  |-> [st.power EXCEPT ![g] = @ - 1],
              dist   |-> [st.dist EXCEPT ![g] = @ \cup {members[i]}]])

\* "for user_pk in members": break on an exhausted group, skip a user picked
\* before, else pick the user and take one vote of the group.
RECURSIVE PickMembers(_, _, _, _)
PickMembers(members, i, g, st) ==
    IF i > Len(members) \/ st.power[g] = 0 THEN st
    ELSE IF members[i] \in st.picked THEN PickMembers(members, i + 1, g, st)
    ELSE PickMembers(members, i + 1, g,
             [picked |-> st.picked \cup {members[i]},
              power  |-> [st.power EXCEPT ![g] = @ - 1],
              dist   |-> [st.dist EXCEPT ![g] = @ \cup {members[i]}]])

\* "for group in groups_with_votes", for one role, in the order the query
\* yielded the groups.
RECURSIVE GroupPass(_, _, _, _)
GroupPass(order, k, role_id, st) ==
    IF k > Len(order) THEN st
    ELSE GroupPass(order, k + 1, role_id,
                   PickMembers(SortedMembers(order[k], role_id), 1, order[k], st))

\* group_vote_power counting the votes already noted on memberships as
\* handed out.
StartPickLessNoted ==
    [picked |-> {},
     power  |-> [g \in GroupsWithVotes |->
                    LET noted == Cardinality({u \in Users : /\ role[g][u] # Absent
                                                            /\ mvotes[g][u] # None
                                                            /\ mvotes[g][u][1] > 0})
                    IN  IF noted >= gvotes[g][1] THEN 0 ELSE gvotes[g][1] - noted],
     dist   |-> [g \in GroupsWithVotes |-> {}]]

\* picked_voters, group_vote_power and groups_vote_dist before the loops.
StartPick ==
    [picked |-> {},
     power  |-> [g \in GroupsWithVotes |-> gvotes[g][1]],
     dist   |-> [g \in GroupsWithVotes |-> {}]]

\* The two passes taken in the other order: substitutes before mains.
AllocateSubstFirst(order) ==
    GroupPass(order, 1, MAIN_ROLE_ID, GroupPass(order, 1, SUBSTITUTE_ROLE_ID, StartPick))

\* "for role in [main_role, subst_role]: for group in groups_with_votes".
AllocateActive(order) ==
    GroupPass(order, 1, SUBSTITUTE_ROLE_ID, GroupPass(order, 1, MAIN_ROLE_ID, StartPick))

\* The test of relevant_roles failing only when none of the roles is found.
ActiveRolesNoneFound == group_roles \cap {MAIN_ROLE_ID, SUBSTITUTE_ROLE_ID} = {}

\* len(relevant_roles) != 2
ActiveRolesMissing == Cardinality(group_roles \cap {MAIN_ROLE_ID, SUBSTITUTE_ROLE_ID}) # 2

\* "if update_memberships:" without the reset of the memberships a granting
\* group did not pick.
UpdatedMembershipsKeepUnpicked(dist) ==
    LET granting == {g \in DOMAIN dist : dist[g] # {}}
    IN  [g \in MeetingGroups |-> [u \in Users |->
            IF role[g][u] = Absent THEN mvotes[g][u]
            ELSE IF g \in granting
                 THEN (IF u \in dist[g] THEN Some(1) ELSE mvotes[g][u])
                 ELSE IF mvotes[g][u] # None /\ mvotes[g][u][1] > 0
                      THEN None
                      ELSE mvotes[g][u]]]

\* "if update_memberships:" without the last loop over the other groups.
UpdatedMembershipsGrantingOnly(dist) ==
    LET granting == {g \in DOMAIN dist : dist[g] # {}}
    IN  [g \in MeetingGroups |-> [u \in Users |->
            IF role[g][u] = Absent \/ g \notin granting THEN mvotes[g][u]
            ELSE IF u \in dist[g] THEN Some(1) ELSE None]]

\* The membership votes after "if update_memberships:": in a group that
\* granted votes the voters carry 1 and the others nothing, in every other
\* group a positive value is cleared.
UpdatedMemberships(dist) ==
    LET granting == {g \in DOMAIN dist : dist[g] # {}}
    IN  [g \in MeetingGroups |-> [u \in Users |->
            IF role[g][u] = Absent THEN mvotes[g][u]
            ELSE IF g \in granting
                 THEN (IF u \in dist[g] THEN Some(1) ELSE None)
                 ELSE IF mvotes[g][u] # None /\ mvotes[g][u][1] > 0
                      THEN None
                      ELSE mvotes[g][u]]]

\* The memberships <<group, user>> on which membership.save() ran: those
\* whose votes differ in the store after the call.
SavedMemberships(after) ==
    {gm \in MeetingGroups \X Users : after[gm[1]][gm[2]] # mvotes[gm[1]][gm[2]]}

\* MainSubstActivePolicy.get_voters(update_memberships)
GetVotersActive(update_memberships) ==
    /\ IF ActiveRolesMissing
       THEN /\ ret' = Ret("msa.get_voters", "error", <<>>, "Bad configuration", NoAux)
            /\ UNCHANGED mvotes
       ELSE \E order \in Perms(GroupsWithVotes) :
              LET res == AllocateActive(order)
                  after == IF update_memberships
                           THEN UpdatedMemberships(res.dist)
                           ELSE mvotes
              IN  /\ ret' = Ret("msa.get_voters", "ok", WeightOne(res.picked), "",
                                [dist |-> res.dist, power |-> res.power,
                                 update |-> update_memberships,
                                 saved |-> SavedMemberships(after),
                                 stale |-> FALSE, overtaken |-> FALSE])
                  /\ mvotes' = after
    /\ inflight' = IF update_memberships /\ ~ActiveRolesMissing
                   THEN Overtaken(inflight)
                   ELSE inflight
    /\ UNCHANGED <<role, gvotes, setup, active_users, active_enabled, transfers>>

\* group.votes = v; group.save()
SetGroupVotes(g, v) ==
    /\ gvotes[g] # v
    /\ gvotes' = [gvotes EXCEPT ![g] = v]
    /\ ret' = NoRet
    /\ inflight' = Outdated(inflight)
    /\ UNCHANGED <<role, mvotes, setup, active_users, active_enabled, transfers>>

InLog(u) == \E i \in 1..Len(active_users) : active_users[i] = u

\* meeting.active_users.create(user=u): appended, once per user.
MarkActive(u) ==
    /\ ~InLog(u)
    /\ Len(active_users) < MaxActive
    /\ active_users' = Append(active_users, u)
    /\ ret' = NoRet
    /\ inflight' = Outdated(inflight)
    /\ UNCHANGED <<role, mvotes, gvotes, setup, active_enabled, transfers>>

\* meeting.active_users.filter(user=u).delete()
UnmarkActive(u) ==
    /\ InLog(u)
    /\ active_users' = SelectSeq(active_users, LAMBDA x : x # u)
    /\ ret' = NoRet
    /\ inflight' = Outdated(inflight)
    /\ UNCHANGED <<role, mvotes, gvotes, setup, active_enabled, transfers>>

\* The ActiveUsersComponent is created (on) or deleted.
SetActiveEnabled(b) ==
    /\ active_enabled # b
    /\ active_enabled' = b
    /\ ret' = NoRet
    /\ inflight' = Outdated(inflight)
    /\ UNCHANGED <<role, mvotes, gvotes, setup, active_users, transfers>>

\* get_voters(update_memberships=True) up to the end of its reads: the groups
\* with votes are fetched, the voters are picked in memory, nothing is
\* written yet.
BeginGetVoters ==
    /\ ~ActiveRolesMissing
    /\ inflight = {}
    /\ \E order \in Perms(GroupsWithVotes) :
          LET res == AllocateActive(order)
          IN  inflight' = {[dist |-> res.dist, power |-> res.power,
                            picked |-> res.picked, stale |-> FALSE,
                            overtaken |-> FALSE]}
    /\ ret' = NoRet
    /\ UNCHANGED <<role, mvotes, gvotes, setup, active_users, active_enabled,
                   transfers>>

\* The rest of that call: "if update_memberships:" writes the picks the call
\* holds in memory onto the memberships the store has now, and the call
\* returns.
FinishGetVoters ==
    \E call \in inflight :
        LET after == UpdatedMemberships(call.dist)
        IN  /\ ret' = Ret("msa.get_voters", "ok", WeightOne(call.picked), "",
                          [dist |-> call.dist, power |-> call.power,
                           update |-> TRUE,
                           saved |-> SavedMemberships(after),
                           stale |-> call.stale,
                           overtaken |-> call.overtaken])
            /\ mvotes' = after
            /\ inflight' = inflight \ {call}
            /\ UNCHANGED <<role, gvotes, setup, active_users, active_enabled,
                           transfers>>

VoteValues == {None} \cup {Some(n) : n \in 0..MaxVotes}

InitMSA == EmptyMeeting(VTRoles, "main_subst_active")

NextMSA ==
    \/ \E u \in Users, g \in MeetingGroups, r \in VTRoles :
          NMemberships < MaxRoleHolders /\ AddMembership(u, g, r)
    \/ \E u \in Users, g \in MeetingGroups : DeleteMembership(u, g)
    \/ \E u \in Users, g \in MeetingGroups, r \in VTRoles : ChangeRole(u, g, r)
    \/ \E g \in MeetingGroups, v \in VoteValues : SetGroupVotes(g, v)
    \/ \E u \in Users : MarkActive(u)
    \/ \E u \in Users : UnmarkActive(u)
    \/ \E b \in BOOLEAN : SetActiveEnabled(b)
    \/ GetVotersActive(FALSE)

SpecMSA == InitMSA /\ [][NextMSA]_vars

\* ================================================================ skk_kfum
FumRoles == {DELEGAT, DELEGAT_FULLMAKT, SUPPLEANT}

\* len(relevant_roles) != 3
FumRolesMissing == Cardinality(group_roles \cap FumRoles) # 3

\* potential_voters without the narrowing to the active users.
FumPotentialVotersAnyActivity == potential

\* potential_voters: the users with ROLE_POTENTIAL_VOTER, narrowed to the
\* active users when the component is on.
FumPotentialVoters ==
    IF active_enabled THEN {u \in potential : InLog(u)} ELSE potential

\* base_gm_qs.filter(role=...): the memberships <<group, user>> of a role in
\* the groups with votes, held by potential voters.
FumMemberships(role_id) ==
    {gm \in GroupsWithVotes \X FumPotentialVoters : role[gm[1]][gm[2]] = role_id}

\* iterate_and_pick_voters with the test of the group's vote power left out.
RECURSIVE IterateAndPickUnchecked(_, _, _)
IterateAndPickUnchecked(gm_qs, i, st) ==
    IF i > Len(gm_qs) THEN st
    ELSE IF gm_qs[i][2] \in st.pickset THEN IterateAndPickUnchecked(gm_qs, i + 1, st)
    ELSE IterateAndPickUnchecked(gm_qs, i + 1,
             [vote_power |-> [st.vote_power EXCEPT ![gm_qs[i][1]] = @ - 1],
              pickset    |-> st.pickset \cup {gm_qs[i][2]},
              picks      |-> st.picks \cup {gm_qs[i]}])

\* iterate_and_pick_voters: the memberships in the order the query yields
\* them; picks collects the <<group, user>> that took a vote in this call.
RECURSIVE IterateAndPick(_, _, _)
IterateAndPick(gm_qs, i, st) ==
    IF i > Len(gm_qs) THEN st
    ELSE IF gm_qs[i][2] \in st.pickset THEN IterateAndPick(gm_qs, i + 1, st)
    ELSE IF st.vote_power[gm_qs[i][1]] # 0
    THEN IterateAndPick(gm_qs, i + 1,
             [vote_power |-> [st.vote_power EXCEPT ![gm_qs[i][1]] = @ - 1],
              pickset    |-> st.pickset \cup {gm_qs[i][2]},
              picks      |-> st.picks \cup {gm_qs[i]}])
    ELSE IterateAndPick(gm_qs, i + 1, st)

\* One call of iterate_and_pick_voters from get_voters.
Pass(vote_power, gm_qs, pickset) ==
    IterateAndPick(gm_qs, 1, [vote_power |-> vote_power, pickset |-> pickset, picks |-> {}])

\* The weights added up instead of the secondary set overriding the primary.
FumWeightsAdded(primary, secondary) ==
    [u \in primary \cup secondary |->
        (IF u \in primary THEN 1 ELSE 0) + (IF u \in secondary THEN 2 ELSE 0)]

\* voters = {x: 1 for x in primary}; voters.update({x: 2 for x in secondary})
FumWeights(primary, secondary) ==
    [u \in primary \cup secondary |-> IF u \in secondary THEN 2 ELSE 1]

\* The six calls in another order: a first vote for everybody, substitutes
\* included, before any second vote.
FumPassesFirstVotesFirst(fullmakt_qs, delegat_qs, suppleant_qs) ==
    LET p0 == [g \in GroupsWithVotes |-> gvotes[g][1]]
        s1 == Pass(p0, fullmakt_qs, {})
        s2 == Pass(s1.vote_power, delegat_qs, s1.pickset)
        s5 == Pass(s2.vote_power, suppleant_qs, s2.pickset)
        s3 == Pass(s5.vote_power, fullmakt_qs, {})
        s4 == Pass(s3.vote_power, delegat_qs, s3.pickset)
        s6 == Pass(s4.vote_power, suppleant_qs, s4.pickset)
    IN  [primary |-> s5.pickset, secondary |-> s6.pickset, start |-> p0,
         stages |-> <<s1, s2, s3, s4, s5, s6>>, power |-> s6.vote_power]

\* The body of SKKFum.get_voters after the querysets are built: the six
\* calls of iterate_and_pick_voters; stages[k] is the outcome of the k-th.
FumPasses(fullmakt_qs, delegat_qs, suppleant_qs) ==
    LET p0 == [g \in GroupsWithVotes |-> gvotes[g][1]]
        s1 == Pass(p0, fullmakt_qs, {})
        s2 == Pass(s1.vote_power, delegat_qs, s1.pickset)
        s3 == Pass(s2.vote_power, fullmakt_qs, {})
        s4 == Pass(s3.vote_power, delegat_qs, s3.pickset)
        s5 == Pass(s4.vote_power, suppleant_qs, s2.pickset)
        s6 == Pass(s5.vote_power, suppleant_qs, s4.pickset)
    IN  [primary |-> s5.pickset, secondary |-> s6.pickset, start |-> p0,
         stages |-> <<s1, s2, s3, s4, s5, s6>>, power |-> s6.vote_power]

\* SKKFum.get_voters()
GetVotersFum ==
    /\ IF FumRolesMissing
       THEN ret' = Ret("skk.get_voters", "error", <<>>, "Bad configuration", NoAux)
       ELSE \E fullmakt_qs \in Perms(FumMemberships(DELEGAT_FULLMAKT)),
               delegat_qs \in Perms(FumMemberships(DELEGAT)),
               suppleant_qs \in Perms(FumMemberships(SUPPLEANT)) :
              LET res == FumPasses(fullmakt_qs, delegat_qs, suppleant_qs)
              IN  ret' = Ret("skk.get_voters", "ok",
                             FumWeights(res.primary, res.secondary), "", res)
    /\ UNCHANGED store

FumVoteValues == {None} \cup {Some(n) : n \in 0..MaxFumVotes}

\* The meetings the policy is run on: the dialect's three roles, every
\* arrangement of a few memberships and of the groups' votes, at most one
\* participant without potential-voter status.
InitSKK ==
    /\ role \in [Groups -> [Users -> FumRoles \cup {Absent}]]
    /\ NMemberships <= MaxRoleHolders
    /\ mvotes = [g \in Groups |-> [u \in Users |-> None]]
    /\ gvotes \in [Groups -> FumVoteValues]
    /\ group_roles = FumRoles
    /\ potential \in {P \in SUBSET Users : Cardinality(Users \ P) <= 1}
    /\ PlainGroups
    /\ OngoingMeeting("skk_kfum")
    /\ active_users = <<>>
    /\ active_enabled = FALSE
    /\ transfers = {}
    /\ inflight = {}
    /\ ret = NoRet

NextSKK == GetVotersFum

SpecSKK == InitSKK /\ [][NextSKK]_vars

\* ============================================================= skr_agarrad
\* self.meeting.groups.filter(groupid=SKR_GROUP_ID)
SkrGroupsFound == {g \in MeetingGroups : groupid[g] = SKR_GROUP_ID}

KommunGroups == {g \in MeetingGroups : KOMMUN_TAG \in tags[g]}
RegionGroups == {g \in MeetingGroups : REGION_TAG \in tags[g]}
CombinedGroups == KommunGroups \cup RegionGroups

\* group.delegations_from: the groups whose delegate_to is the group.
DelegationsFrom(g) == {h \in MeetingGroups : delegate_to[h] = Some(g)}

\* groups_to_vote_weight: the tagged groups that do not delegate, each with
\* one vote and one more for every group delegating to it.
GroupsToVoteWeight ==
    [g \in {h \in CombinedGroups : delegate_to[h] = None} |->
        Cardinality(DelegationsFrom(g)) + 1]

ActiveUserPks == {active_users[i] : i \in DOMAIN active_users}

\* The memberships of the tagged groups held by users of the active log.
\* active_enabled is not consulted.
SkrMemberships ==
    {gm \in CombinedGroups \X ActiveUserPks : role[gm[1]][gm[2]] # Absent}

\* group_to_user, in insertion order: the first membership met for a group
\* stays, a later one is logged and skipped.
RECURSIVE GroupToUser(_, _, _)
GroupToUser(memberships, i, acc) ==
    IF i > Len(memberships) THEN acc
    ELSE IF \E j \in DOMAIN acc : acc[j][1] = memberships[i][1]
         THEN GroupToUser(memberships, i + 1, acc)
         ELSE GroupToUser(memberships, i + 1, Append(acc, memberships[i]))

\* voters: the dict comprehension over group_to_user; a user met again as key
\* has the weight overwritten.
RECURSIVE SkrVoters(_, _, _, _)
SkrVoters(group_to_user, weight, i, acc) ==
    IF i > Len(group_to_user) THEN acc
    ELSE LET g == group_to_user[i][1]
             u == group_to_user[i][2]
         IN  IF g \in DOMAIN weight /\ weight[g] # 0
             THEN SkrVoters(group_to_user, weight, i + 1,
                            [x \in DOMAIN acc \cup {u} |->
                                IF x = u THEN weight[g] ELSE acc[x]])
             ELSE SkrVoters(group_to_user, weight, i + 1, acc)

\* queryset.first() of an unordered queryset: the row with the lowest pk.
FirstPk(S) == CHOOSE x \in S : \A y \in S : x <= y

SkrMembers(g) == {u \in Users : role[g][u] # Absent}

SkrVoteWeightSingle(voters, skr) ==
    SumOver(voters, DOMAIN voters) + Cardinality(DelegationsFrom(skr)) - 1

\* skr_vw
SkrVoteWeight(voters, skr) ==
    SumOver(voters, DOMAIN voters) + Cardinality(DelegationsFrom(skr)) * 2 - 1

\* get_voters with the test "if skr_user.pk in voters" left out.
SkrResultUnguarded(skr, memberships) ==
    LET g2u == GroupToUser(memberships, 1, <<>>)
        voters == SkrVoters(g2u, GroupsToVoteWeight, 1, <<>>)
        aux == [group_to_user |-> g2u, weight |-> GroupsToVoteWeight, voters |-> voters]
    IN  IF SkrMembers(skr) = {}
        THEN Ret("skr.get_voters", "ok", voters, "", aux)
        ELSE LET skr_user == FirstPk(SkrMembers(skr))
             IN  Ret("skr.get_voters", "ok",
                     [x \in DOMAIN voters \cup {skr_user} |->
                         IF x = skr_user THEN SkrVoteWeight(voters, skr)
                         ELSE voters[x]],
                     "", aux)

\* get_voters from the memberships query on, for one order of its rows.
SkrResult(skr, memberships) ==
    LET g2u == GroupToUser(memberships, 1, <<>>)
        voters == SkrVoters(g2u, GroupsToVoteWeight, 1, <<>>)
        aux == [group_to_user |-> g2u, weight |-> GroupsToVoteWeight, voters |-> voters]
    IN  IF SkrMembers(skr) = {}
        THEN Ret("skr.get_voters", "ok", voters, "", aux)
        ELSE LET skr_user == FirstPk(SkrMembers(skr))
             IN  IF skr_user \in DOMAIN voters
                 THEN Ret("skr.get_voters", "error", <<>>, "skr_user_in_other_group", aux)
                 ELSE Ret("skr.get_voters", "ok",
                          [x \in DOMAIN voters \cup {skr_user} |->
                              IF x = skr_user THEN SkrVoteWeight(voters, skr)
                              ELSE voters[x]],
                          "", aux)

\* SKRAgarradERP.get_voters
GetVotersSkr ==
    /\ IF SkrGroupsFound = {}
       THEN ret' = Ret("skr.get_voters", "error", <<>>, "skr_group_not_found", NoAux)
       ELSE IF KommunGroups \cap RegionGroups # {}
       THEN ret' = Ret("skr.get_voters", "error", <<>>, "kommun_and_region", NoAux)
       ELSE \E memberships \in Perms(SkrMemberships) :
               ret' = SkrResult(FirstPk(SkrGroupsFound), memberships)
    /\ UNCHANGED store

\* The hub group, created first by CreateSKRGroups.install, and the imported
\* groups.
SkrGroups == {0} \cup Groups

SkrTagSets == {{}, {KOMMUN_TAG}, {REGION_TAG}, {KOMMUN_TAG, REGION_TAG}}

\* The logs with the given users, one per set of users: the policy reads the
\* log as a set.
ActiveLogs ==
    {log \in UNION {[1..n -> Users] : n \in 0..MaxActive} :
        \A i, j \in DOMAIN log : i < j => log[i] < log[j]}

\* The meetings the policy is run on: the installed groups with any tags on
\* the imported ones, any delegation but to oneself, a few memberships
\* without role, any short active log.
InitSKR ==
    /\ role \in [SkrGroups -> [Users -> {NoRole, Absent}]]
    /\ NMemberships <= MaxRoleHolders
    /\ mvotes = [g \in SkrGroups |-> [u \in Users |-> None]]
    /\ gvotes = [g \in SkrGroups |-> None]
    /\ group_roles = {}
    /\ potential = Users
    /\ groupid = [g \in SkrGroups |-> IF g = 0 THEN SKR_GROUP_ID ELSE "imported"]
    /\ tags \in {t \in [SkrGroups -> SkrTagSets] : t[0] = {}}
    /\ delegate_to \in {d \in [SkrGroups -> {None} \cup {Some(h) : h \in SkrGroups}] :
                          \A g \in SkrGroups : d[g] # Some(g)}
    /\ OngoingMeeting("skr_agarrad")
    /\ active_users \in ActiveLogs
    /\ active_enabled = FALSE
    /\ transfers = {}
    /\ inflight = {}
    /\ ret = NoRet

NextSKR == GetVotersSkr

SpecSKR == InitSKR /\ [][NextSKR]_vars

\* ===================================================================== sfs
\* self.data.weights: a list of entries [user, weight].
SfsWeightSum(weights) ==
    SumOver([i \in DOMAIN weights |-> weights[i].weight], DOMAIN weights)

SfsUserPks(weights) == {weights[i].user : i \in DOMAIN weights}

SfsMembers(g) == {u \in Users : role[g][u] # Absent}

\* run_job taking the leader role in any group of the meeting for authority.
RunJobVerdictAnyLeader(caller, g, weights) ==
    IF finished THEN "meeting_closed"
    ELSE IF gvotes[g] = None \/ gvotes[g][1] = 0 THEN "no_votes"
    ELSE IF SfsWeightSum(weights) # gvotes[g][1] THEN "bad_vote_sum"
    ELSE IF er_policy_name # GroupVotesBeforePoll THEN "wrong_er_policy"
    ELSE IF ~ ((\E h \in MeetingGroups : role[h][caller] = DELEGATION_LEADER_ROLE_ID)
               \/ caller \in moderators)
    THEN "not_leader_or_moderator"
    ELSE IF SfsUserPks(weights) \ SfsMembers(g) # {} THEN "non_members"
    ELSE IF SfsUserPks(weights) \ potential # {} THEN "non_potential_voters"
    ELSE "ok"

\* The validations of run_job in the order of the code: "ok", or the error.
RunJobVerdict(caller, g, weights) ==
    IF finished THEN "meeting_closed"
    ELSE IF gvotes[g] = None \/ gvotes[g][1] = 0 THEN "no_votes"
    ELSE IF SfsWeightSum(weights) # gvotes[g][1] THEN "bad_vote_sum"
    ELSE IF er_policy_name # GroupVotesBeforePoll THEN "wrong_er_policy"
    ELSE IF ~ (role[g][caller] = DELEGATION_LEADER_ROLE_ID \/ caller \in moderators)
    THEN "not_leader_or_moderator"
    ELSE IF SfsUserPks(weights) \ SfsMembers(g) # {} THEN "non_members"
    ELSE IF SfsUserPks(weights) \ potential # {} THEN "non_potential_voters"
    ELSE "ok"

\* The members of g the first loop clears: not named, with votes > 0.
SfsToClear(g, weights) ==
    {u \in SfsMembers(g) \ SfsUserPks(weights) :
        mvotes[g][u] # None /\ mvotes[g][u][1] > 0}

\* The second loop: update_or_create of each entry in turn.
RECURSIVE SfsUpsert(_, _, _)
SfsUpsert(weights, i, mv) ==
    IF i > Len(weights) THEN mv
    ELSE SfsUpsert(weights, i + 1,
                   [mv EXCEPT ![weights[i].user] = Some(weights[i].weight)])

\* The votes of the memberships of g after both loops.
SfsWritten(g, weights) ==
    SfsUpsert(weights, 1,
              [u \in Users |-> IF u \in SfsToClear(g, weights) THEN None ELSE mvotes[g][u]])

\* run_job writing although the potential-voter validation failed.
SfsVotesAfterUnchecked(verdict, g, weights) ==
    IF verdict \in {"ok", "non_potential_voters"} THEN SfsWritten(g, weights) ELSE mvotes[g]

\* run_job: a raised error ends the job before the loops.
SfsVotesAfter(verdict, g, weights) ==
    IF verdict = "ok" THEN SfsWritten(g, weights) ELSE mvotes[g]

\* What a job leaves behind next to its verdict: for a job that wrote, and
\* for one refused for want of authority, who asked for which group; for a
\* job that wrote also the weights.
SfsLog(verdict, caller, g, weights) ==
    IF verdict = "ok"
    THEN [caller |-> {caller}, group |-> {g}, weights |-> weights]
    ELSE IF verdict = "not_leader_or_moderator"
    THEN [caller |-> {caller}, group |-> {g}, weights |-> <<>>]
    ELSE [caller |-> {}, group |-> {}, weights |-> <<>>]

\* SFSSetDelegationVoters.run_job for the caller self.user, the context
\* meeting_group g and the submitted weights.
RunJob(caller, g, weights) ==
    /\ LET verdict == RunJobVerdict(caller, g, weights)
       IN  /\ mvotes' = [mvotes EXCEPT ![g] = SfsVotesAfter(verdict, g, weights)]
           /\ ret' = Ret("sfs.run_job", verdict, <<>>, "", SfsLog(verdict, caller, g, weights))
    /\ UNCHANGED <<role, gvotes, setup, active_users, active_enabled, transfers, inflight>>

\* The submissions: lists of entries with weights from 1 up, summing to at
\* most one more than a group has. Entries of different users come in one
\* order, which the loops do not tell apart; a user may be named twice.
SfsWeightLists ==
    {w \in UNION {[1..n -> [user : Users, weight : 1..MaxVotes]] : n \in 0..MaxSfsEntries} :
        /\ \A i, j \in DOMAIN w : i < j => w[i].user <= w[j].user
        /\ SfsWeightSum(w) <= MaxVotes + 1}

SfsRoles == {DELEGATION_LEADER_ROLE_ID, NoRole, Absent}

\* The meetings: one with nothing in the way of the command and no
\* moderator, the same with a moderator, a closed one, one under another
\* policy, one with a user without potential-voter status.
SfsMeetings ==
    {[finished |-> FALSE, policy |-> GroupVotesBeforePoll, potential |-> Users,
      moderators |-> {}],
     [finished |-> FALSE, policy |-> GroupVotesBeforePoll, potential |-> Users,
      moderators |-> {NUsers}],
     [finished |-> TRUE, policy |-> GroupVotesBeforePoll, potential |-> Users,
      moderators |-> {}],
     [finished |-> FALSE, policy |-> "other", potential |-> Users,
      moderators |-> {}],
     [finished |-> FALSE, policy |-> GroupVotesBeforePoll, potential |-> Users \ {1},
      moderators |-> {}]}

\* The meetings the command is sent to: a few members with or without the
\* leader role, one at most outside the first group, no membership votes
\* yet, MaxVotes votes in every group or in the first only.
InitSFS ==
    /\ role \in [Groups -> [Users -> SfsRoles]]
    /\ NMemberships <= MaxRoleHolders
    /\ \A g \in Groups \ {1} : Cardinality({u \in Users : role[g][u] # Absent}) <= 1
    /\ mvotes = [g \in Groups |-> [u \in Users |-> None]]
    /\ \E with_votes \in {Groups, {1}} :
          gvotes = [g \in Groups |-> IF g \in with_votes THEN Some(MaxVotes) ELSE None]
    /\ group_roles = {DELEGATION_LEADER_ROLE_ID}
    /\ PlainGroups
    /\ \E m \in SfsMeetings :
          /\ finished = m.finished
          /\ er_policy_name = m.policy
          /\ potential = m.potential
          /\ moderators = m.moderators
    /\ active_users = <<>>
    /\ active_enabled = FALSE
    /\ transfers = {}
    /\ inflight = {}
    /\ ret = NoRet

NextSFS == \E caller \in Users, g \in MeetingGroups, weights \in SfsWeightLists :
               RunJob(caller, g, weights)

SpecSFS == InitSFS /\ [][NextSFS]_vars

\* ------------------------------------------------- skk_kfum, active users
\* The meetings of test_active_respected: the dialect's three roles, the
\* ActiveUsersComponent on, any short active log, a few memberships, groups
\* with no votes or a few, at most one participant without potential-voter
\* status.
InitSKKActive ==
    /\ role \in [Groups -> [Users -> FumRoles \cup {Absent}]]
    /\ NMemberships <= MaxRoleHolders
    /\ mvotes = [g \in Groups |-> [u \in Users |-> None]]
    /\ gvotes \in [Groups -> {None} \cup {Some(n) : n \in 1..MaxVotes}]
    /\ group_roles = FumRoles
    /\ potential \in {P \in SUBSET Users : Cardinality(Users \ P) <= 1}
    /\ PlainGroups
    /\ OngoingMeeting("skk_kfum")
    /\ active_users \in ActiveLogs
    /\ active_enabled = TRUE
    /\ transfers = {}
    /\ inflight = {}
    /\ ret = NoRet

SpecSKKActive == InitSKKActive /\ [][NextSKK]_vars

\* ------------------------------------- main_subst_active, memberships noted
\* Votes a membership carries from before: none, 0, or MaxVotes as after
\* GroupMembership.objects.all().update(votes=2); 1 comes with the calls.
MemberVoteValues == {None, Some(0), Some(MaxVotes)}

\* The meetings of test_correct_memberships_updated: the dialect's two roles,
\* a few memberships carrying any votes from before, groups with no votes or
\* a few, the ActiveUsersComponent off or on with the first MaxActive users
\* in the log.
InitMSAUpdate ==
    /\ role \in [Groups -> [Users -> VTRoles \cup {Absent}]]
    /\ NMemberships <= MaxRoleHolders
    /\ mvotes \in [Groups -> [Users -> MemberVoteValues]]
    /\ \A g \in Groups, u \in Users : role[g][u] = Absent => mvotes[g][u] = None
    /\ gvotes \in [Groups -> {None} \cup {Some(n) : n \in 1..MaxVotes}]
    /\ group_roles = VTRoles
    /\ potential = Users
    /\ PlainGroups
    /\ OngoingMeeting("main_subst_active")
    /\ \/ active_enabled = FALSE /\ active_users = <<>>
       \/ active_enabled = TRUE /\ active_users = [i \in 1..MaxActive |-> i]
    /\ transfers = {}
    /\ inflight = {}
    /\ ret = NoRet

NextMSAUpdate ==
    \/ GetVotersActive(TRUE)
    \/ GetVotersActive(FALSE)

SpecMSAUpdate == InitMSAUpdate /\ [][NextMSAUpdate]_vars

\* ------------------------------------------- the allocators' group roles
\* Meetings with any of the dialects' group roles, run by one of the two
\* allocators: a few memberships in the roles at hand, every group with
\* MaxVotes votes, and every membership noted with MaxVotes votes as after
\* GroupMembership.objects.all().update(votes=2).
InitRoles ==
    /\ group_roles \in SUBSET (VTRoles \cup FumRoles)
    /\ role \in [Groups -> [Users -> group_roles \cup {Absent}]]
    /\ NMemberships <= MaxRoleHolders
    /\ mvotes = [g \in Groups |-> [u \in Users |->
                    IF role[g][u] = Absent THEN None ELSE Some(MaxVotes)]]
    /\ gvotes = [g \in Groups |-> Some(MaxVotes)]
    /\ potential = Users
    /\ PlainGroups
    /\ finished = FALSE
    /\ er_policy_name \in {"main_subst_active", "skk_kfum"}
    /\ moderators = {}
    /\ active_users = <<>>
    /\ active_enabled = FALSE
    /\ transfers = {}
    /\ inflight = {}
    /\ ret = NoRet

\* meeting.er_policy.get_voters: the policy the meeting names.
NextRoles ==
    \/ er_policy_name = "main_subst_active" /\ GetVotersActive(TRUE)
    \/ er_policy_name = "main_subst_active" /\ GetVotersActive(FALSE)
    \/ er_policy_name = "skk_kfum" /\ GetVotersFum

SpecRoles == InitRoles /\ [][NextRoles]_vars

\* ------------------------- main_subst_active, calls that are not serialized
\* A meeting with a few memberships in which
\* get_voters(update_memberships=True) runs either as one step or as two,
\* its reads and its writes, with changes of the group capacities, deleted
\* memberships and whole calls in between.
InitRace ==
    /\ role \in [Groups -> [Users -> VTRoles \cup {Absent}]]
    /\ NMemberships <= MaxRacing
    /\ mvotes = [g \in Groups |-> [u \in Users |-> None]]
    /\ gvotes = [g \in Groups |-> None]
    /\ group_roles = VTRoles
    /\ potential = Users
    /\ PlainGroups
    /\ OngoingMeeting("main_subst_active")
    /\ active_enabled = FALSE
    /\ active_users = <<>>
    /\ transfers = {}
    /\ inflight = {}
    /\ ret = NoRet

NextRace ==
    \/ \E g \in MeetingGroups, v \in {None, Some(1), Some(MaxVotes)} :
          SetGroupVotes(g, v)
    \/ \E u \in Users, g \in MeetingGroups : DeleteMembership(u, g)
    \/ BeginGetVoters
    \/ FinishGetVoters
    \/ GetVotersActive(TRUE)

SpecRace == InitRace /\ [][NextRace]_vars

\* ------------------------------------------------------------ properties
\* C1: the transfers of a meeting form a matching: no user is the source of
\* two transfers, none the target of two, none the source of one and the
\* target of another.
TransfersFormMatching ==
    \A a, b \in transfers :
        a # b => /\ a.source # b.source
                 /\ a.target # b.target
                 /\ a.source # b.target

\* With a transfer in place, a create that would have shared its target or
\* chained onto it has been refused by the check.
ConflictingTransferRefused ==
    /\ transfers # {}
    /\ ret.op = "create"
    /\ ret.status = "target_taken"

\* C4: get_voters of main_subst_delegate returns weight 1 for exactly the
\* main-role holders that are not the source of a transfer plus the targets
\* of the transfers whose source holds main; such a source is not returned.
DelegateVotersExact ==
    ret.op = "get_voters" =>
        LET live == {vt \in transfers : vt.source \in MainHolders}
        IN  /\ ret.status = "ok"
            /\ DOMAIN ret.voters =
                   (MainHolders \ {vt.source : vt \in transfers})
                       \cup {vt.target : vt \in live}
            /\ \A u \in DOMAIN ret.voters : ret.voters[u] = 1
            /\ \A vt \in live : vt.source \notin DOMAIN ret.voters

\* get_voters ran with a transfer in place and another main holder untouched.
DelegateVotersWithTransfer ==
    /\ ret.op = "get_voters"
    /\ \E vt \in transfers :
          /\ vt.source \in MainHolders
          /\ vt.target \in DOMAIN ret.voters
          /\ \E u \in MainHolders \ {vt.source} : u \in DOMAIN ret.voters

\* The votes of a group as a number: nothing for a null.
VotesOf(g) == IF gvotes[g] = None THEN 0 ELSE gvotes[g][1]

\* groups_vote_dist of the last call, the empty set for a group without entry.
GrantedBy(g) == IF g \in DOMAIN ret.aux.dist THEN ret.aux.dist[g] ELSE {}

\* C2: main_subst_active attributes to each group at most as many voters as
\* the group has votes; every voter is attributed to exactly one group, of
\* which the voter is a member, so no group uses another group's votes; a
\* group with null or zero votes hands out nothing.
ActiveCapacityRespected ==
    (ret.op = "msa.get_voters" /\ ret.status = "ok") =>
        /\ \A g \in MeetingGroups : Cardinality(GrantedBy(g)) <= VotesOf(g)
        /\ \A u \in DOMAIN ret.voters :
              /\ Cardinality({g \in MeetingGroups : u \in GrantedBy(g)}) = 1
              /\ \A g \in MeetingGroups : u \in GrantedBy(g) => role[g][u] \in VTRoles
        /\ \A g \in MeetingGroups : GrantedBy(g) \subseteq DOMAIN ret.voters

\* A group ran out of votes with an eligible member left without a vote,
\* while another group kept an unused vote.
ActiveCapacityExhausted ==
    /\ ret.op = "msa.get_voters"
    /\ ret.status = "ok"
    /\ \E g \in MeetingGroups :
          /\ VotesOf(g) > 0
          /\ Cardinality(GrantedBy(g)) = VotesOf(g)
          /\ \E i \in 1..Len(OrderedUsers) :
                /\ role[g][OrderedUsers[i]] \in VTRoles
                /\ OrderedUsers[i] \notin DOMAIN ret.voters
    /\ \E g \in MeetingGroups : Cardinality(GrantedBy(g)) < VotesOf(g)

\* C3: a substitute of group g is picked through g only if every eligible
\* main member of g is a voter.
MainBeforeSubstitute ==
    (ret.op = "msa.get_voters" /\ ret.status = "ok") =>
        \A g \in MeetingGroups : \A s \in GrantedBy(g) :
            role[g][s] = SUBSTITUTE_ROLE_ID =>
                \A i \in 1..Len(OrderedUsers) :
                    role[g][OrderedUsers[i]] = MAIN_ROLE_ID =>
                        OrderedUsers[i] \in DOMAIN ret.voters

\* A substitute got a vote through a group that has an eligible main member,
\* the substitute being ahead of that main in the order.
SubstitutePickedAfterMain ==
    /\ ret.op = "msa.get_voters"
    /\ ret.status = "ok"
    /\ \E g \in MeetingGroups : \E s \in GrantedBy(g) :
          /\ role[g][s] = SUBSTITUTE_ROLE_ID
          /\ \E i, j \in 1..Len(OrderedUsers) :
                /\ OrderedUsers[i] = s
                /\ role[g][OrderedUsers[j]] = MAIN_ROLE_ID
                /\ i < j

FumOk == ret.op = "skk.get_voters" /\ ret.status = "ok"

\* The <<group, user>> picks of the k-th call of iterate_and_pick_voters.
Picks(k) == ret.aux.stages[k].picks
PickedIn(ks) == {gm[2] : gm \in UNION {Picks(k) : k \in ks}}

\* C5: in skk_kfum no group's vote power goes below zero in any of the six
\* passes, the returned weights add up to the votes taken from the groups,
\* and the votes taken through a group never exceed its votes.
FumPowerNeverNegative ==
    FumOk =>
        /\ \A k \in 1..6 : \A g \in DOMAIN ret.aux.start :
              ret.aux.stages[k].vote_power[g] >= 0
        /\ SumOver(ret.voters, DOMAIN ret.voters)
              = SumOver([g \in DOMAIN ret.aux.start |-> ret.aux.start[g] - ret.aux.power[g]],
                        DOMAIN ret.aux.start)
        /\ \A g \in DOMAIN ret.aux.start :
              /\ ret.aux.start[g] = VotesOf(g)
              /\ SumOver([k \in 1..6 |-> Cardinality({gm \in Picks(k) : gm[1] = g})], 1..6)
                    = ret.aux.start[g] - ret.aux.power[g]

\* A group was emptied with an eligible member left without a second vote.
FumGroupEmptied ==
    /\ FumOk
    /\ \E g \in DOMAIN ret.aux.start :
          /\ ret.aux.power[g] = 0
          /\ \E u \in DOMAIN ret.voters :
                role[g][u] \in FumRoles /\ ret.voters[u] = 1

\* C6: every weight skk_kfum returns is 1 or 2, and it is the number of
\* votes the user took from the groups over the six passes.
FumWeightAtMostTwo ==
    FumOk =>
        \A u \in DOMAIN ret.voters :
            /\ ret.voters[u] \in {1, 2}
            /\ ret.voters[u] =
                  SumOver([k \in 1..6 |-> Cardinality({gm \in Picks(k) : gm[2] = u})], 1..6)

\* A user with roles in two groups holds 2 votes while a group keeps votes
\* it could not hand out.
FumTwoVotesWithSurplus ==
    /\ FumOk
    /\ \E u \in DOMAIN ret.voters :
          /\ ret.voters[u] = 2
          /\ Cardinality({g \in MeetingGroups : role[g][u] \in FumRoles}) = 2
          /\ \E g \in DOMAIN ret.aux.power : role[g][u] \in FumRoles /\ ret.aux.power[g] > 0

\* The potential voters holding role_id in group g.
FumEligible(g, role_id) == {u \in FumPotentialVoters : role[g][u] = role_id}

\* C7: within a group the votes go, in this order, to a first vote for each
\* del_2, a first vote for each del_1, a second vote for each del_2, a second
\* vote for each del_1, a first and then a second vote for each suppleant:
\* whoever is served through the group at one step, everybody of the group
\* entitled at the earlier steps has been served.
FumPriorityOrder ==
    FumOk =>
        \A g \in DOMAIN ret.aux.start :
            LET F == FumEligible(g, DELEGAT_FULLMAKT)
                D == FumEligible(g, DELEGAT)
                S == FumEligible(g, SUPPLEANT)
                Via(k) == \E gm \in Picks(k) : gm[1] = g
            IN  /\ Via(2) => F \subseteq PickedIn({1})
                /\ Via(3) => (F \cup D) \subseteq PickedIn({1, 2})
                /\ Via(4) => /\ (F \cup D) \subseteq PickedIn({1, 2})
                             /\ F \subseteq PickedIn({3})
                /\ Via(5) => (F \cup D) \subseteq PickedIn({3, 4})
                /\ Via(6) => /\ (F \cup D) \subseteq PickedIn({3, 4})
                             /\ S \subseteq PickedIn({1, 2, 5})
                /\ \A u \in F \cup D \cup S :
                      (u \in DOMAIN ret.voters /\ ret.voters[u] = 2)
                          <=> u \in PickedIn({3, 4, 6})

\* A group with a del_2, a del_1 and a suppleant ran out of votes after the
\* suppleant's first vote: 2, 2 and 1.
FumSuppleantLast ==
    /\ FumOk
    /\ \E g \in DOMAIN ret.aux.start : \E f, d, x \in DOMAIN ret.voters :
          /\ role[g][f] = DELEGAT_FULLMAKT /\ ret.voters[f] = 2
          /\ role[g][d] = DELEGAT /\ ret.voters[d] = 2
          /\ role[g][x] = SUPPLEANT /\ ret.voters[x] = 1
          /\ ret.aux.power[g] = 0

SkrOk == ret.op = "skr.get_voters" /\ ret.status = "ok"
SkrActiveMembers(g) == SkrMembers(g) \cap ActiveUserPks
SkrNonDelegating == {g \in CombinedGroups : delegate_to[g] = None}
IsSkrUser(u) ==
    \E skr \in SkrGroupsFound :
        /\ \A h \in SkrGroupsFound : skr <= h
        /\ u \in SkrMembers(skr)
        /\ \A v \in SkrMembers(skr) : u <= v

\* C8: in a mapping returned by skr_agarrad's get_voters, the one active
\* member of a kommun- or region-tagged group that does not delegate has the
\* weight 1 + the number of groups delegating to that group; and nobody but
\* the hub's member is in the mapping without being an active member of such
\* a group (a delegating group gives no weight, an inactive member gets none).
SkrTaggedGroupWeight ==
    SkrOk =>
        /\ \A g \in SkrNonDelegating : \A u \in Users :
              SkrActiveMembers(g) = {u} =>
                  /\ u \in DOMAIN ret.voters
                  /\ ret.voters[u] = 1 + Cardinality(DelegationsFrom(g))
        /\ \A u \in DOMAIN ret.voters :
              \/ IsSkrUser(u)
              \/ \E g \in SkrNonDelegating : u \in SkrActiveMembers(g)

\* C9: when the hub group has a member, a mapping returned by skr_agarrad's
\* get_voters gives the hub's member the sum of the other voters' weights
\* plus twice the number of groups delegating to the hub, minus one.
SkrHubWeight ==
    SkrOk =>
        \A u \in Users :
            IsSkrUser(u) =>
                /\ u \in DOMAIN ret.voters
                /\ ret.voters[u] =
                      SumOver(ret.voters, DOMAIN ret.voters \ {u})
                      + 2 * Cardinality({g \in MeetingGroups :
                                            \E skr \in SkrGroupsFound : delegate_to[g] = Some(skr)})
                      - 1

\* A hub member next to another voter, with a group delegating to the hub:
\* the hub weight is 1 + 2 - 1.
SkrHubWithDelegation ==
    /\ SkrOk
    /\ \E u \in DOMAIN ret.voters :
          /\ IsSkrUser(u)
          /\ ret.voters[u] = 2
          /\ \E v \in DOMAIN ret.voters : v # u /\ ret.voters[v] = 1
          /\ \E g \in CombinedGroups : \E skr \in SkrGroupsFound : delegate_to[g] = Some(skr)

\* C10: every weight in a mapping returned by the get_voters of any of the
\* four policies is at least 1, the hub member's weight included.
WeightsPositive ==
    (ret.op \in {"get_voters", "msa.get_voters", "skk.get_voters", "skr.get_voters"}
        /\ ret.status = "ok")
    => \A u \in DOMAIN ret.voters : ret.voters[u] >= 1

\* C11: the users in a mapping returned by the get_voters of any policy all
\* hold potential-voter status in the meeting.
VotersArePotentialVoters ==
    (ret.op \in {"get_voters", "msa.get_voters", "skk.get_voters", "skr.get_voters"}
        /\ ret.status = "ok")
    => DOMAIN ret.voters \subseteq potential

\* A group in which the transfer's source holds 'main' and its target
\* 'substitute'.
Justified(vt) ==
    \E g \in MeetingGroups : /\ HasRole(vt.source, g, MAIN_ROLE_ID)
                             /\ HasRole(vt.target, g, SUBSTITUTE_ROLE_ID)

\* C12: after any sequence of checked creates and updates and of membership
\* events, every existing transfer is justified by a group in which its
\* source holds 'main' and its target holds 'substitute'.
TransfersJustified == \A vt \in transfers : Justified(vt)

\* A membership event took the justification of a transfer away and the
\* receivers deleted the transfer.
UnjustifiedTransferDeleted ==
    /\ ret.op = "role_event"
    /\ \E vt \in ret.aux.deleted : ~Justified(vt) /\ vt \notin transfers

\* C13: a role-removed event deletes a transfer only when, after the removal,
\* no group remains in which the transfer's source holds 'main' and its
\* target 'substitute'.
RemovalDeletesOnlyUnjustified ==
    ret.op = "role_event" => \A vt \in ret.aux.by_removed : ~Justified(vt)

\* C14: once a membership gives 'main' to a user, no transfer has that user
\* as target: the event deleted them; and get_voters run after the event
\* returns the user and, if it still holds 'main', the former source, each
\* with weight 1.
MainRoleEndsTransfersToUser ==
    /\ \A vt \in transfers : vt.target \notin MainHolders
    /\ ret.op = "role_event" =>
          \A vt \in ret.aux.by_added :
              /\ vt.target \in MainHolders
              /\ \A vts \in Perms({t \in transfers : t.source \in MainHolders}) :
                    LET res == DelegateVoterSet(vts)
                        voters == WeightOne(res.voters)
                    IN  /\ res.status = "ok"
                        /\ vt.target \in DOMAIN voters /\ voters[vt.target] = 1
                        /\ vt.source \in MainHolders =>
                              (vt.source \in DOMAIN voters /\ voters[vt.source] = 1)

\* The target of a transfer was given 'main' in another group while the
\* source still holds 'main': check_role_added deleted the transfer.
TransferEndedByMainRole ==
    /\ ret.op = "role_event"
    /\ \E vt \in ret.aux.by_added :
          /\ vt \notin transfers
          /\ vt.source \in MainHolders
          /\ \E g \in MeetingGroups : HasRole(vt.target, g, SUBSTITUTE_ROLE_ID)

\* The calls of check a create or an update can make in the current state.
CheckCalls ==
    {c \in Users \X Users \X ({{}} \cup {{vt} : vt \in transfers}) : c[1] # c[2]}

CheckRejections == {"target_taken", "target_main", "no_shared_group"}

\* What C15 requires of an accepted transfer.
MayTransfer(source, target) ==
    /\ ~ \E g \in MeetingGroups : HasRole(target, g, MAIN_ROLE_ID)
    /\ \E g \in MeetingGroups : /\ HasRole(source, g, MAIN_ROLE_ID)
                                /\ HasRole(target, g, SUBSTITUTE_ROLE_ID)

\* check accepts only what may be transferred, rejects the rest, and its
\* errors are keyed on 'target'.
CheckAcceptsOnlyJustified ==
    /\ \A c \in CheckCalls :
          /\ Check(c[1], c[2], c[3]) = "ok" => MayTransfer(c[1], c[2])
          /\ ~MayTransfer(c[1], c[2]) => Check(c[1], c[2], c[3]) \in CheckRejections
    /\ (ret.op \in {"create", "update"} /\ ret.status \in CheckRejections)
          => ret.msg = "target"

\* A refused create or update writes no transfer.
CheckRefusalKeepsTransfers ==
    [][(ret'.op \in {"create", "update"} /\ ret'.status # "ok")
          => transfers' = transfers]_vars

\* C15: a transfer check accepts has a target that holds 'main' in no group
\* and a group with the source as 'main' and the target as 'substitute'; a
\* transfer failing either is rejected by check with an error keyed on
\* 'target', and a refused create or update leaves the transfers as they
\* were.
CheckContract == []CheckAcceptsOnlyJustified /\ CheckRefusalKeepsTransfers

\* A transfer exists and a create or update was refused because its target
\* holds 'main'.
TargetMainRefused ==
    /\ transfers # {}
    /\ ret.op \in {"create", "update"}
    /\ ret.status = "target_main"
    /\ ret.msg = "target"

\* The users that are source or target of a transfer other than the one
\* being modified.
TakenBy(others) == {vt.source : vt \in others} \cup {vt.target : vt \in others}

\* C16: check rejects the transfer whenever its source or its target already
\* appears as source or as target of another transfer, the one being
\* modified not counted.
CheckRejectsTakenUsers ==
    \A c \in CheckCalls :
        ({c[1], c[2]} \cap TakenBy(transfers \ c[3]) # {})
            => Check(c[1], c[2], c[3]) # "ok"

\* C16, amended: check rejects the transfer whenever its target appears as
\* source or as target of another transfer or its source is the target of
\* another; moving an existing transfer to a free substitute of the
\* source's group is accepted. (A source that is the source of another
\* transfer is not tested by check.)
CheckRejectsTakenTarget ==
    \A c \in CheckCalls :
        LET others == transfers \ c[3]
        IN  /\ (c[2] \in TakenBy(others) \/ c[1] \in {vt.target : vt \in others})
                  => Check(c[1], c[2], c[3]) # "ok"
            /\ (/\ c[3] # {}
                /\ \A vt \in c[3] : vt.source = c[1]
                /\ c[2] \notin TakenBy(others)
                /\ MayTransfer(c[1], c[2]))
                  => Check(c[1], c[2], c[3]) = "ok"

\* An update was accepted while the source's group holds another free
\* substitute: the transfer could be, or was, moved from the one to the other.
TransferMovedToFreeSubstitute ==
    /\ ret.op = "update"
    /\ ret.status = "ok"
    /\ \E vt \in transfers : \E u \in Users :
          /\ u # vt.target
          /\ u \notin TakenBy(transfers)
          /\ MayTransfer(vt.source, u)

SfsRan == ret.op = "sfs.run_job"

\* Everything C17 lists holds of a call: the meeting is not finished, the
\* group has votes, the weights sum to them, the policy is the expected one,
\* the caller is leader of the group or moderator, the named users are
\* members of the group and potential voters.
SfsValid(caller, g, weights) ==
    /\ ~finished
    /\ gvotes[g] # None /\ gvotes[g][1] > 0
    /\ SfsWeightSum(weights) = gvotes[g][1]
    /\ er_policy_name = GroupVotesBeforePoll
    /\ (role[g][caller] = DELEGATION_LEADER_ROLE_ID \/ caller \in moderators)
    /\ SfsUserPks(weights) \subseteq SfsMembers(g)
    /\ SfsUserPks(weights) \subseteq potential

\* A call failing a validation gets an error.
SfsInvalidRefused ==
    \A caller \in Users, g \in MeetingGroups, weights \in SfsWeightLists :
        ~SfsValid(caller, g, weights) => RunJobVerdict(caller, g, weights) # "ok"

\* A job that ends with an error leaves the votes of every membership.
SfsErrorKeepsVotes ==
    [][(ret'.op = "sfs.run_job" /\ ret'.status # "ok") => mvotes' = mvotes]_vars

\* C17: when run_job fails any of its validations it raises an error and the
\* votes of every membership are the same as before the command.
SfsNoPartialMutation == []SfsInvalidRefused /\ SfsErrorKeepsVotes

\* Memberships carry votes and a job was refused by the last validation:
\* a named user is no potential voter.
SfsRefusedWithVotesSet ==
    /\ SfsRan
    /\ ret.status = "non_potential_voters"
    /\ \E g \in MeetingGroups, u \in Users : mvotes[g][u] # None

\* C18: after a successful run_job on group G every named user's membership
\* in G carries the submitted weight, every member of G not named carries
\* null, and the votes of the memberships of G sum to the votes of G.
SfsFullReplacement ==
    (SfsRan /\ ret.status = "ok") =>
        \A g \in ret.aux.group :
            LET weights == ret.aux.weights
            IN  /\ \A i \in DOMAIN weights :
                      mvotes[g][weights[i].user] = Some(weights[i].weight)
                /\ \A u \in SfsMembers(g) \ SfsUserPks(weights) : mvotes[g][u] = None
                /\ \A u \in Users \ SfsMembers(g) : mvotes[g][u] = None
                /\ SumOver([u \in SfsMembers(g) |->
                               IF mvotes[g][u] = None THEN 0 ELSE mvotes[g][u][1]],
                           SfsMembers(g)) = gvotes[g][1]

\* A job that wrote was sent by a leader of the group itself or a moderator.
SfsWriterAuthorised ==
    (SfsRan /\ ret.status = "ok") =>
        \A g \in ret.aux.group, caller \in ret.aux.caller :
            role[g][caller] = DELEGATION_LEADER_ROLE_ID \/ caller \in moderators

\* Votes of memberships change only in a job that ended without error.
SfsOnlyJobsWrite ==
    [][mvotes' # mvotes => (ret'.op = "sfs.run_job" /\ ret'.status = "ok")]_vars

\* C19: run_job changes membership votes of group G only when the caller
\* holds the 'leader' role in a membership of G itself or has meeting-change
\* permission.
SfsOnlyLeaderOrModeratorWrites == []SfsWriterAuthorised /\ SfsOnlyJobsWrite

\* The leader of another group, an ordinary member of the group itself, was
\* refused.
SfsOtherLeaderRefused ==
    /\ SfsRan
    /\ ret.status = "not_leader_or_moderator"
    /\ \E g \in ret.aux.group, caller \in ret.aux.caller :
          /\ role[g][caller] = NoRole
          /\ \E h \in MeetingGroups : role[h][caller] = DELEGATION_LEADER_ROLE_ID

\* The place of user u in the active-user log, 0 when u is not in it.
LogPlace(u) ==
    IF \E i \in 1..Len(active_users) : active_users[i] = u
    THEN CHOOSE i \in 1..Len(active_users) : active_users[i] = u
    ELSE 0

\* C20: with active-tracking enabled, if main_subst_active picks user u
\* through group G in the pass of a role, every user v holding the same role
\* in G who entered the active-user log before u is a voter too.
ActiveOrderDecides ==
    (ret.op = "msa.get_voters" /\ ret.status = "ok" /\ active_enabled) =>
        \A g \in MeetingGroups : \A u \in GrantedBy(g) : \A v \in Users :
            (role[g][v] = role[g][u] /\ LogPlace(v) > 0 /\ LogPlace(v) < LogPlace(u))
                => v \in DOMAIN ret.voters

\* Two holders of a role in a group are both active, the one with the
\* higher pk first, and the later one was picked through the group.
LaterActivePicked ==
    /\ ret.op = "msa.get_voters"
    /\ ret.status = "ok"
    /\ active_enabled
    /\ \E g \in MeetingGroups : \E u \in GrantedBy(g) : \E v \in Users :
          /\ role[g][v] = role[g][u]
          /\ LogPlace(v) > 0
          /\ LogPlace(v) < LogPlace(u)
          /\ u < v
          /\ v \in DOMAIN ret.voters

\* C21: with active-tracking enabled every voter of main_subst_active is in
\* the active-user log, every user a group granted a vote to as well, and a
\* group that left an active holder of 'main' or 'substitute' without a vote
\* has handed out all of its votes: a member who is not active takes none.
ActiveVotersOnly ==
    (ret.op = "msa.get_voters" /\ ret.status = "ok" /\ active_enabled) =>
        /\ DOMAIN ret.voters \subseteq ActiveUserPks
        /\ \A g \in MeetingGroups :
              /\ GrantedBy(g) \subseteq ActiveUserPks
              /\ (\E u \in ActiveUserPks \ DOMAIN ret.voters : role[g][u] \in VTRoles)
                    => Cardinality(GrantedBy(g)) = VotesOf(g)

\* A group with a single vote, a 'main' member who is not active and an
\* active substitute: the substitute has the vote.
InactiveMainPassedOver ==
    /\ ret.op = "msa.get_voters"
    /\ ret.status = "ok"
    /\ active_enabled
    /\ \E g \in MeetingGroups : \E m, s \in Users :
          /\ VotesOf(g) = 1
          /\ role[g][m] = MAIN_ROLE_ID
          /\ m \notin ActiveUserPks
          /\ role[g][s] = SUBSTITUTE_ROLE_ID
          /\ s \in GrantedBy(g)

\* u passes the filters of skk_kfum: potential-voter status and, with the
\* component on, a place in the active-user log.
FumMayVote(u) == u \in potential /\ (active_enabled => u \in ActiveUserPks)

\* C22: every voter of skk_kfum holds potential-voter status and, with
\* active-tracking enabled, is in the active-user log; every vote taken from
\* a group in any of the six passes was taken by such a user, so the
\* memberships of the others consume no capacity.
FumVotersEligible ==
    FumOk =>
        /\ \A u \in DOMAIN ret.voters : FumMayVote(u)
        /\ \A k \in 1..6 : \A gm \in Picks(k) : FumMayVote(gm[2])
        /\ \A g \in DOMAIN ret.aux.start :
              ret.aux.start[g] - ret.aux.power[g] =
                  SumOver([k \in 1..6 |->
                              Cardinality({gm \in Picks(k) : gm[1] = g /\ FumMayVote(gm[2])})],
                          1..6)

\* With the component on, a group with a single vote has a del_2 who is a
\* potential voter but not active, and a del_1 without potential-voter
\* status who is active: the group's active suppleant has the vote.
FumIneligiblePassedOver ==
    /\ FumOk
    /\ active_enabled
    /\ \E g \in DOMAIN ret.aux.start : \E x, y, z \in Users :
          /\ VotesOf(g) = 1
          /\ role[g][x] = DELEGAT_FULLMAKT
          /\ x \in potential \ ActiveUserPks
          /\ role[g][y] = DELEGAT
          /\ y \in ActiveUserPks \ potential
          /\ role[g][z] = SUPPLEANT
          /\ z \in DOMAIN ret.voters

MsaOk == ret.op = "msa.get_voters" /\ ret.status = "ok"

\* The mappings get_voters may return in the current state, one for each
\* order the query may yield the groups in.
MsaMappings == [order \in Perms(GroupsWithVotes) |-> WeightOne(AllocateActive(order).picked)]

HasVotes(g, u) == mvotes[g][u] # None /\ mvotes[g][u][1] > 0

\* After a call with update_memberships the memberships with votes > 0 are
\* the ones the groups granted a vote through, each with 1.
NotedVotesAreTheGranted ==
    (MsaOk /\ ret.aux.update) =>
        /\ \A g \in MeetingGroups, u \in Users :
              /\ HasVotes(g, u) <=> u \in GrantedBy(g)
              /\ HasVotes(g, u) => mvotes[g][u] = Some(1)
        /\ \A u \in DOMAIN ret.voters :
              Cardinality({g \in MeetingGroups : HasVotes(g, u)}) = 1

\* A membership with votes > 0 that is not granted a vote by the call is
\* reset to null.
StaleVotesReset ==
    [][(ret'.op = "msa.get_voters" /\ ret'.status = "ok" /\ ret'.aux.update) =>
          \A g \in MeetingGroups, u \in Users :
              (HasVotes(g, u) /\ u \notin GrantedBy(g)') => mvotes'[g][u] = None]_vars

\* C24: after get_voters(update_memberships=True) of main_subst_active the
\* memberships with votes > 0 are exactly those of the voters in the group
\* that granted each the vote, each with votes = 1, one per voter, and every
\* membership that carried votes before and is granted none is null.
UpdateNotesExactlyTheGranted == []NotedVotesAreTheGranted /\ StaleVotesReset

\* A call with update_memberships cleared a membership in a group that
\* granted votes and one in a group that granted none, and a voter who is a
\* member of two groups carries the vote in one.
StaleMembershipsCleared ==
    /\ MsaOk
    /\ ret.aux.update
    /\ \E gm \in ret.aux.saved : GrantedBy(gm[1]) # {} /\ mvotes[gm[1]][gm[2]] = None
    /\ \E gm \in ret.aux.saved : GrantedBy(gm[1]) = {} /\ mvotes[gm[1]][gm[2]] = None
    /\ \E u \in DOMAIN ret.voters : \A g \in MeetingGroups : role[g][u] # Absent

\* The mappings skk_kfum may return in the current state, one for each
\* order the queries may yield the memberships in.
FumMappings ==
    {FumWeights(res.primary, res.secondary) :
        res \in {FumPasses(f, d, s) :
                    f \in Perms(FumMemberships(DELEGAT_FULLMAKT)),
                    d \in Perms(FumMemberships(DELEGAT)),
                    s \in Perms(FumMemberships(SUPPLEANT))}}

\* C25: the mapping returned by get_voters of main_subst_active and of
\* skk_kfum is the one the state determines: whatever order the datastore
\* yields the groups and the memberships in, the call returns the mapping it
\* returned.
MappingIndependentOfQueryOrder ==
    /\ MsaOk => \A order \in Perms(GroupsWithVotes) : MsaMappings[order] = ret.voters
    /\ FumOk => FumMappings = {ret.voters}

\* The call got as far as the memberships of the tagged groups.
SkrPicked == ret.op = "skr.get_voters" /\ ret.msg \notin {"skr_group_not_found", "kommun_and_region"}

\* u was taken as the user of a tagged group that carries a weight.
SkrWeightedThroughGroup(u) ==
    \E j \in DOMAIN ret.aux.group_to_user :
        /\ ret.aux.group_to_user[j][2] = u
        /\ ret.aux.group_to_user[j][1] \in DOMAIN ret.aux.weight

\* C26: whenever the hub group's member has been assigned a weight through
\* a kommun- or region-tagged group, skr_agarrad's get_voters raises and
\* returns no mapping; in a mapping it returns the hub's member was not
\* assigned a weight through such a group.
SkrHubCollisionRaises ==
    SkrPicked =>
        \A u \in Users :
            (IsSkrUser(u) /\ SkrWeightedThroughGroup(u)) =>
                /\ ret.status = "error"
                /\ ret.msg = "skr_user_in_other_group"
                /\ ret.voters = <<>>

\* The hub's member is the active member of a tagged group that delegates to
\* nobody, and the call raised.
SkrHubMemberCollided ==
    /\ ret.op = "skr.get_voters"
    /\ ret.status = "error"
    /\ ret.msg = "skr_user_in_other_group"
    /\ \E u \in Users : \E g \in SkrNonDelegating :
          IsSkrUser(u) /\ u \in SkrActiveMembers(g)

\* C30: every user in a mapping returned by skr_agarrad's get_voters is in
\* the meeting's active-user log, the hub group's member included.
SkrVotersAreActive ==
    SkrOk => DOMAIN ret.voters \subseteq ActiveUserPks

\* The meeting has the group roles the policy that ran asks for.
RequiredRolesPresent ==
    /\ ret.op = "msa.get_voters" => {MAIN_ROLE_ID, SUBSTITUTE_ROLE_ID} \subseteq group_roles
    /\ ret.op = "skk.get_voters" => {DELEGAT, DELEGAT_FULLMAKT, SUPPLEANT} \subseteq group_roles

\* A call on a meeting lacking a required role ended in the configuration
\* error, with no mapping and no pick.
MissingRolesRefused ==
    (ret.op \in {"msa.get_voters", "skk.get_voters"} /\ ~RequiredRolesPresent) =>
        /\ ret.status = "error"
        /\ ret.msg = "Bad configuration"
        /\ ret.voters = <<>>
        /\ ret.aux = NoAux

\* A call that ends in an error saves no membership.
ErrorSavesNothing ==
    [][ret'.status = "error" => mvotes' = mvotes]_vars

TransfersConserveVotes ==
    /\ \A vt \in transfers : vt.target \notin MainHolders
    /\ ret.op = "get_voters" =>
          /\ ret.status = "ok"
          /\ Cardinality(DOMAIN ret.voters) = Cardinality(MainHolders)
          /\ \A u \in DOMAIN ret.voters : ret.voters[u] = 1

\* get_voters ran with a transfer in place whose source holds 'main' in two
\* groups, next to another holder of 'main': the target votes, the source
\* does not.
VoteMovedByTransfer ==
    /\ ret.op = "get_voters"
    /\ Cardinality(MainHolders) >= 2
    /\ \E vt \in transfers :
          /\ vt.target \in DOMAIN ret.voters
          /\ vt.source \notin DOMAIN ret.voters
          /\ \E g \in MeetingGroups : role[g][vt.target] = SUBSTITUTE_ROLE_ID
          /\ Cardinality({g \in MeetingGroups : role[g][vt.source] = MAIN_ROLE_ID}) = 2

\* The memberships of group g that carry votes.
WithVotes(g) == {u \in Users : HasVotes(g, u)}

\* The call that returned wrote while the store held what the call had read.
WroteWhatItRead == MsaOk /\ ret.aux.update /\ ~ret.aux.stale

\* C28: calls of get_voters(update_memberships=True) that are not serialized
\* race, and serialized ones do not. A call that runs as one step, or whose
\* writes meet the memberships and capacities it read, ends in a state where
\* the memberships with votes are the picks get_voters computes in that state
\* and no group has more of them than its capacity.
SerializedCallsEndConsistent ==
    WroteWhatItRead =>
        /\ \E order \in Perms(GroupsWithVotes) :
              LET res == AllocateActive(order)
              IN  /\ ret.voters = WeightOne(res.picked)
                  /\ \A g \in MeetingGroups :
                        WithVotes(g) = IF g \in DOMAIN res.dist THEN res.dist[g] ELSE {}
        /\ \A g \in MeetingGroups : Cardinality(WithVotes(g)) <= VotesOf(g)

\* The race: a call read, the store changed and another call ran from its
\* reads to its writes, then the first call wrote its picks; a group now has
\* more memberships with votes than its capacity.
StaleWriteExceedsCapacity ==
    /\ MsaOk
    /\ ret.aux.update
    /\ ret.aux.stale
    /\ ret.aux.overtaken
    /\ \E g \in MeetingGroups : Cardinality(WithVotes(g)) > VotesOf(g)

=============================================================================
